---- MODULE Spec2Model ----
(***************************************************************************)
(* Duplicated_image_finder: the ImageProcessor of src/image_processor.py   *)
(* (file enumeration, duplicate grouping, resolution-ranked resolve, face  *)
(* clustering, organize) and the three handlers of src/api_server.py that  *)
(* drive it through one global `processor`.                                *)
(*                                                                         *)
(* The file system is part of the state.  A path is a record               *)
(* [dir, stem, suffix]; a file carries the observable facts of its bytes:  *)
(* digest, decodability, pixel count, byte size, three perceptual hashes   *)
(* (sets of set bits, distance = Hamming distance) and what face detection *)
(* does on it.  Directory listings are kept in creation order, which is    *)
(* the order os.scandir is taken to return.                                *)
(***************************************************************************)
EXTENDS Integers, Sequences, FiniteSets, TLC

VARIABLES
    caseFold,     \* the platform's glob ignores case (Windows) or not (POSIX)
    libFails,     \* face_recognition.face_locations raises on the probe image
    dirs,         \* existing directories, in creation order
    fs,           \* existing files, in creation order: [path, c]
    processor,    \* api_server.processor: None or an ImageProcessor
    response,     \* what the last call returned
    client,       \* the groups of the last scan response, as the client holds them
    calls,        \* number of calls made so far
    scanned,      \* history: some find-duplicates call created a processor
    fresh,        \* history: client holds the groups of a scan and no resolve ran since
    job           \* an organize_images run in progress (library-level run)

vars == <<caseFold, libFails, dirs, fs, processor, response, client, calls,
          scanned, fresh, job>>

(***************************************************************************)
(* Bounds of the model.                                                    *)
(***************************************************************************)
MaxCalls == 2
MaxImages == 2
MaxFiles == 3

(***************************************************************************)
(* Program constants.                                                      *)
(***************************************************************************)
HashThreshold == 5
Tolerance == 50

(***************************************************************************)
(* Sequences helpers.                                                      *)
(***************************************************************************)
Range(s) == {s[i] : i \in 1..Len(s)}

RECURSIVE Flatten(_)
Flatten(ss) == IF ss = <<>> THEN <<>> ELSE Head(ss) \o Flatten(Tail(ss))

RECURSIVE SumSeq(_)
SumSeq(s) == IF s = <<>> THEN 0 ELSE Head(s) + SumSeq(Tail(s))

\* the first occurrences of s, in order: the key order of a dict filled from s
RECURSIVE Dedup(_)
Dedup(s) ==
    IF s = <<>> THEN <<>>
    ELSE LET r == Dedup(SubSeq(s, 1, Len(s) - 1))
             x == s[Len(s)]
         IN IF x \in Range(r) THEN r ELSE Append(r, x)

Map(s, Op(_)) == [i \in 1..Len(s) |-> Op(s[i])]

(***************************************************************************)
(* Paths and the file system.                                              *)
(***************************************************************************)
Path(d, stem, suffix) == [dir |-> d, stem |-> stem, suffix |-> suffix]

Exists(files, p) == \E i \in 1..Len(files) : files[i].path = p

ContentOf(files, p) == (CHOOSE e \in Range(files) : e.path = p).c

Remove(files, p) == SelectSeq(files, LAMBDA e : e.path # p)

IsPrefix(d, x) == Len(d) <= Len(x) /\ SubSeq(x, 1, Len(d)) = d

Parent(d) == SubSeq(d, 1, Len(d) - 1)

\* Path.mkdir(exist_ok=True): the parent must exist
MkdirOk(ds, d) == d \in Range(ds) \/ Len(d) = 1 \/ Parent(d) \in Range(ds)

Mkdir(ds, d) == IF d \in Range(ds) THEN ds ELSE Append(ds, d)

\* Path.mkdir(parents=True, exist_ok=True)
RECURSIVE MkdirParents(_, _)
MkdirParents(ds, d) ==
    IF d = <<>> \/ d \in Range(ds) THEN ds
    ELSE Append(MkdirParents(ds, Parent(d)), d)

(***************************************************************************)
(* File suffixes: str.upper() and the case folding of a case-insensitive   *)
(* glob, by table over the suffixes that occur.                            *)
(***************************************************************************)
supported_formats == <<".jpg", ".jpeg", ".png", ".bmp", ".gif", ".tiff", ".webp">>

Upper(s) ==
    CASE s \in {".jpg", ".JPG", ".Jpg"} -> ".JPG"
      [] s \in {".jpeg", ".JPEG"} -> ".JPEG"
      [] s \in {".png", ".PNG"} -> ".PNG"
      [] s \in {".bmp", ".BMP"} -> ".BMP"
      [] s \in {".gif", ".GIF"} -> ".GIF"
      [] s \in {".tiff", ".TIFF"} -> ".TIFF"
      [] s \in {".webp", ".WEBP"} -> ".WEBP"
      [] s \in {".txt", ".TXT"} -> ".TXT"
      [] OTHER -> s

\* fnmatch of the pattern '*<ext>' against a name with this suffix
Matches(fold, ext, suffix) ==
    IF fold THEN Upper(ext) = Upper(suffix) ELSE ext = suffix

\* the directories below d, d first, children in listing order (pre-order)
RECURSIVE Walk(_, _)
Walk(ds, d) ==
    LET kids == SelectSeq(ds, LAMBDA x : Len(x) = Len(d) + 1 /\ IsPrefix(d, x))
    IN <<d>> \o Flatten(Map(kids, LAMBDA k : Walk(ds, k)))

\* source_dir.rglob('*<ext>')
rglob(fold, ds, files, d, ext) ==
    Flatten(Map(Walk(ds, d), LAMBDA x :
        Map(SelectSeq(files, LAMBDA e : e.path.dir = x
                                        /\ Matches(fold, ext, e.path.suffix)),
            LAMBDA e : e.path)))

get_image_files(fold, ds, files, source_dirs) ==
    Flatten(Map(source_dirs, LAMBDA d :
        IF d \notin Range(ds) THEN <<>>
        ELSE Flatten(Map(supported_formats, LAMBDA ext :
                 rglob(fold, ds, files, d, ext)
                 \o rglob(fold, ds, files, d, Upper(ext))))))

(***************************************************************************)
(* Hash engine.  A file's content c: c.md5 = 0 when the bytes cannot be    *)
(* read, c.dec = FALSE when the image cannot be decoded.                   *)
(***************************************************************************)
NoHash == 0

calculate_md5_hash(files, p) ==
    IF Exists(files, p) THEN ContentOf(files, p).md5 ELSE NoHash

\* the perceptual hashes of a decodable file; ok = FALSE stands for None
calculate_image_hashes(files, p) ==
    IF Exists(files, p) /\ ContentOf(files, p).dec
    THEN LET c == ContentOf(files, p)
         IN [ok |-> TRUE, phash |-> c.ph, dhash |-> c.dh, whash |-> c.wh]
    ELSE [ok |-> FALSE, phash |-> {}, dhash |-> {}, whash |-> {}]

\* the tuple (width, height, total_pixels) of a decodable file, of which only
\* total_pixels is ever read, as <<total_pixels>>; <<>> stands for None
get_image_resolution(files, p) ==
    IF Exists(files, p) /\ ContentOf(files, p).dec
    THEN <<ContentOf(files, p).pix>>
    ELSE <<>>

\* imagehash's h1 - h2: the number of differing bits
HashDiff(h1, h2) == Cardinality((h1 \ h2) \cup (h2 \ h1))

B2N(b) == IF b THEN 1 ELSE 0

Similar(hash1, hash2) ==
    LET phash_diff == HashDiff(hash1.phash, hash2.phash)
        dhash_diff == HashDiff(hash1.dhash, hash2.dhash)
        whash_diff == HashDiff(hash1.whash, hash2.whash)
    IN \/ (phash_diff <= HashThreshold /\ dhash_diff <= HashThreshold
           /\ whash_diff <= HashThreshold)
       \/ B2N(phash_diff <= HashThreshold) + B2N(dhash_diff <= HashThreshold)
          + B2N(whash_diff <= HashThreshold) >= 2

(***************************************************************************)
(* Duplicate grouper.                                                      *)
(***************************************************************************)
\* step 1: md5_to_files restricted to the digests that more than one entry has
ExactDuplicates(files, image_files) ==
    LET hashed == SelectSeq(image_files,
                            LAMBDA p : calculate_md5_hash(files, p) # NoHash)
        keys == Dedup(Map(hashed, LAMBDA p : calculate_md5_hash(files, p)))
        byKey == Map(keys, LAMBDA k :
                     SelectSeq(hashed, LAMBDA p : calculate_md5_hash(files, p) = k))
    IN SelectSeq(byKey, LAMBDA g : Len(g) > 1)

\* step 2: the greedy pass over image_hashes, seeds in key order
RECURSIVE SimilarGroups(_, _, _, _, _)
SimilarGroups(files, keys, i, processed, acc) ==
    IF i > Len(keys) THEN acc
    ELSE IF keys[i] \in processed
         THEN SimilarGroups(files, keys, i + 1, processed, acc)
    ELSE LET img1 == keys[i]
             hash1 == calculate_image_hashes(files, img1)
             joined == SelectSeq(keys, LAMBDA img2 :
                          /\ img2 \notin processed
                          /\ img2 # img1
                          /\ Similar(hash1, calculate_image_hashes(files, img2)))
             group == <<img1>> \o joined
         IN SimilarGroups(files, keys, i + 1, processed \cup Range(group),
                          IF Len(group) > 1 THEN Append(acc, group) ELSE acc)

\* a group as find_duplicates returns it
Group(files, members, type) ==
    [files |-> members,
     resolutions |-> [p \in {q \in Range(members) :
                                 get_image_resolution(files, q) # <<>>}
                      |-> get_image_resolution(files, p)],
     type |-> type]

find_duplicates(files, image_files) ==
    LET exact_duplicates == ExactDuplicates(files, image_files)
        keys == Dedup(SelectSeq(image_files,
                     LAMBDA p : calculate_image_hashes(files, p).ok))
        similar_groups == SimilarGroups(files, keys, 1, {}, <<>>)
        exact_files == UNION {Range(g) : g \in Range(exact_duplicates)}
        kept == SelectSeq(similar_groups,
                          LAMBDA g : Range(g) \cap exact_files = {})
    IN Map(exact_duplicates, LAMBDA g : Group(files, g, "exact"))
       \o Map(kept, LAMBDA g : Group(files, g, "similar"))

(***************************************************************************)
(* Resolution-based resolver: the ranking both handlers use.               *)
(***************************************************************************)
\* the sort key of a group member: (pixels, live byte size)
Pixels(group, p) ==
    IF p \in DOMAIN group.resolutions /\ group.resolutions[p] # <<>>
    THEN group.resolutions[p][1]
    ELSE 0

LiveSize(files, p) == IF Exists(files, p) THEN ContentOf(files, p).size ELSE 0

KeyLess(k1, k2) == k1[1] < k2[1] \/ (k1[1] = k2[1] /\ k1[2] < k2[2])

RankKey(files, group, p) == <<Pixels(group, p), LiveSize(files, p)>>

\* list.sort(key, reverse=True): stable, greatest key first
RECURSIVE SortDesc(_, _, _)
SortDesc(files, group, s) ==
    IF s = <<>> THEN <<>>
    ELSE LET rest == SortDesc(files, group, SubSeq(s, 1, Len(s) - 1))
             x == s[Len(s)]
             \* x goes after every element whose key is not less than its own
             pos == Cardinality({i \in 1..Len(rest) :
                        ~KeyLess(RankKey(files, group, rest[i]),
                                 RankKey(files, group, x))})
         IN SubSeq(rest, 1, pos) \o <<x>> \o SubSeq(rest, pos + 1, Len(rest))

Ranked(files, group) == SortDesc(files, group, group.files)

\* all but the first of the ranking
Redundant(files, group) ==
    LET r == Ranked(files, group) IN SubSeq(r, 2, Len(r))

(***************************************************************************)
(* Writing files.                                                          *)
(***************************************************************************)
\* a write to path p: a new directory entry, or new bytes under an old entry
Write(files, p, c) ==
    IF Exists(files, p)
    THEN [i \in 1..Len(files) |->
             IF files[i].path = p THEN [path |-> p, c |-> c] ELSE files[i]]
    ELSE Append(files, [path |-> p, c |-> c])

\* f"{stem}_{counter}{suffix}" in folder
Suffixed(folder, p, counter) ==
    Path(folder, p.stem \o "_" \o ToString(counter), p.suffix)

\* the while loop over dest.exists(); counter = 0 stands for the plain name
RECURSIVE move_dest(_, _, _, _)
move_dest(files, duplicates_folder, dup_file, counter) ==
    LET dest == IF counter = 0
                THEN Path(duplicates_folder, dup_file.stem, dup_file.suffix)
                ELSE Suffixed(duplicates_folder, dup_file, counter)
    IN IF Exists(files, dest)
       THEN move_dest(files, duplicates_folder, dup_file, counter + 1)
       ELSE dest

RECURSIVE copy_dest(_, _, _, _)
copy_dest(files, person_folder, img_path, counter) ==
    LET dest_path == IF counter = 0
                     THEN Path(person_folder, img_path.stem, img_path.suffix)
                     ELSE Suffixed(person_folder, img_path, counter)
    IN IF Exists(files, dest_path)
       THEN copy_dest(files, person_folder, img_path, counter + 1)
       ELSE dest_path

\* what one write did, for the record: the files of the folder before it
WriteRecord(files, src, dest) ==
    [src |-> src, dest |-> dest, c |-> ContentOf(files, src),
     before |-> {x \in Range(files) : x.path.dir = dest.dir}]

(***************************************************************************)
(* delete_duplicates.  st = [ok, dirs, fs, deleted, failed, writes]        *)
(***************************************************************************)
DuplicatesFolder(source_dirs) == Append(source_dirs[1], "_duplicates")

low_res_files(files, duplicates) ==
    Flatten(Map(duplicates, LAMBDA g : Redundant(files, g)))

\* one pass of the loop over low_res_files
MoveOrDelete(st, duplicates_folder, dup_file, move_to_folder) ==
    IF ~Exists(st.fs, dup_file)
    THEN [st EXCEPT !.failed = @ + 1]
    ELSE IF move_to_folder
    THEN LET dest == move_dest(st.fs, duplicates_folder, dup_file, 0)
         IN [st EXCEPT
                !.fs = Write(Remove(@, dup_file), dest, ContentOf(st.fs, dup_file)),
                !.deleted = Append(@, dup_file),
                !.writes = Append(@, WriteRecord(st.fs, dup_file, dest))]
    ELSE [st EXCEPT !.fs = Remove(@, dup_file),
                    !.deleted = Append(@, dup_file)]

RECURSIVE DeleteLoop(_, _, _, _)
DeleteLoop(st, duplicates_folder, todo, move_to_folder) ==
    IF todo = <<>> THEN st
    ELSE DeleteLoop(MoveOrDelete(st, duplicates_folder, Head(todo), move_to_folder),
                    duplicates_folder, Tail(todo), move_to_folder)

delete_duplicates(proc, ds, files, duplicates, move_to_folder) ==
    LET st0 == [ok |-> TRUE, dirs |-> ds, fs |-> files, deleted |-> <<>>,
                failed |-> 0, writes |-> <<>>]
        makes == move_to_folder /\ proc.source_dirs # <<>>
        duplicates_folder ==
            IF makes THEN DuplicatesFolder(proc.source_dirs) ELSE <<>>
    IN IF makes /\ ~MkdirOk(ds, duplicates_folder)
       THEN [st0 EXCEPT !.ok = FALSE]        \* mkdir raises FileNotFoundError
       ELSE LET st1 == IF makes
                       THEN [st0 EXCEPT !.dirs = Mkdir(ds, duplicates_folder)]
                       ELSE st0
                todo == low_res_files(files, duplicates)
            IN IF todo = <<>> THEN st1
               ELSE DeleteLoop(st1, duplicates_folder, todo, move_to_folder)

(***************************************************************************)
(* Face clustering.  An embedding is a point on a line, in hundredths of   *)
(* the library's distance unit; c.det = [throws, faces]: face detection    *)
(* raises on the file, or finds these faces, each with the embedding its   *)
(* encoding gives, or NoEncoding when get_face_encoding returns None.      *)
(* known_faces is the dict as the sequence of its items, [name, enc], in   *)
(* insertion order.                                                        *)
(***************************************************************************)
NoEncoding == -1
NoPerson == ""
NotDetected == "Not Detected Persons"
Multiple == "Multiple Persons"

PersonName(n) == "Person_" \o ToString(n)

face_distance(a, b) == IF a >= b THEN a - b ELSE b - a

\* face_recognition.compare_faces([known_encoding], face_encoding, tolerance)
compare_faces(known_encoding, face_encoding, tolerance) ==
    face_distance(known_encoding, face_encoding) <= tolerance

\* the closest cluster within tolerance instead of the first
identify_person_closest(known_faces, face_encoding, tolerance) ==
    IF \A i \in 1..Len(known_faces) :
           ~compare_faces(known_faces[i].enc, face_encoding, tolerance)
    THEN NoPerson
    ELSE known_faces[CHOOSE i \in 1..Len(known_faces) :
            /\ compare_faces(known_faces[i].enc, face_encoding, tolerance)
            /\ \A j \in 1..Len(known_faces) :
                   face_distance(known_faces[i].enc, face_encoding)
                   <= face_distance(known_faces[j].enc, face_encoding)
                   /\ (face_distance(known_faces[i].enc, face_encoding)
                       = face_distance(known_faces[j].enc, face_encoding) => i <= j)].name

identify_person(known_faces, face_encoding, tolerance) ==
    IF \A i \in 1..Len(known_faces) :
           ~compare_faces(known_faces[i].enc, face_encoding, tolerance)
    THEN NoPerson
    ELSE known_faces[CHOOSE i \in 1..Len(known_faces) :
            /\ compare_faces(known_faces[i].enc, face_encoding, tolerance)
            /\ \A j \in 1..(i - 1) :
                   ~compare_faces(known_faces[j].enc, face_encoding, tolerance)].name

\* detect_faces: the face locations found, none when detection raises
detect_faces(c) == IF c.det.throws THEN <<>> ELSE c.det.faces

\* the branch "New person found" with person_counter already incremented to n
NewPerson(st, face_encoding, n) ==
    [known |-> Append(st.known, [name |-> PersonName(n), enc |-> face_encoding]),
     counter |-> n,
     persons |-> st.persons \cup {PersonName(n)},
     faces |-> Append(st.faces, [enc |-> face_encoding, known |-> st.known,
                                 name |-> PersonName(n), created |-> TRUE])]

\* a match that also moves the cluster's representative to the new face
AddPersonRefining(st, face_encoding, person_name) ==
    IF person_name = NoPerson
    THEN NewPerson(st, face_encoding, st.counter + 1)
    ELSE [st EXCEPT !.persons = @ \cup {person_name},
                    !.known = [i \in 1..Len(st.known) |->
                                  IF st.known[i].name = person_name
                                  THEN [name |-> person_name, enc |-> face_encoding]
                                  ELSE st.known[i]],
                    !.faces = Append(@, [enc |-> face_encoding, known |-> st.known,
                                         name |-> person_name, created |-> FALSE])]

\* persons_in_image.add(person_name), after a new cluster where none matched
AddPerson(st, face_encoding, person_name) ==
    IF person_name = NoPerson
    THEN NewPerson(st, face_encoding, st.counter + 1)
    ELSE [st EXCEPT !.persons = @ \cup {person_name},
                    !.faces = Append(@, [enc |-> face_encoding, known |-> st.known,
                                         name |-> person_name, created |-> FALSE])]

\* one pass of the loop over face_locations; st = [known, counter, persons]
OneFace(st, face) ==
    IF face = NoEncoding THEN st
    ELSE AddPerson(st, face, identify_person(st.known, face, Tolerance))

RECURSIVE FaceLoop(_, _)
FaceLoop(st, faces) ==
    IF faces = <<>> THEN st ELSE FaceLoop(OneFace(st, Head(faces)), Tail(faces))

\* the label of an image from persons_in_image
LabelOf(persons_in_image) ==
    IF Cardinality(persons_in_image) > 1 THEN Multiple
    ELSE IF Cardinality(persons_in_image) = 1
         THEN CHOOSE x \in persons_in_image : TRUE
    ELSE NotDetected

\* the label from the number of faces instead of the distinct persons
LabelledByFaceCount(st) ==
    [label |-> IF Len(st.faces) > 1 THEN Multiple
               ELSE IF Len(st.faces) = 1 THEN st.faces[1].name
               ELSE NotDetected,
     known |-> st.known, counter |-> st.counter, faces |-> st.faces]

Labelled(st) ==
    [label |-> LabelOf(st.persons), known |-> st.known, counter |-> st.counter,
     faces |-> st.faces]

\* process_image: [label, known, counter, faces]; it raises nothing.  faces
\* keeps, for the record, what each face met and got: [enc, known, name,
\* created]
process_image(known_faces, person_counter, c) ==
    IF detect_faces(c) = <<>>
    THEN [label |-> NotDetected, known |-> known_faces, counter |-> person_counter,
          faces |-> <<>>]
    ELSE Labelled(FaceLoop([known |-> known_faces, counter |-> person_counter,
                            persons |-> {}, faces |-> <<>>], detect_faces(c)))

(***************************************************************************)
(* organize_images.  A run is                                              *)
(*   [output_dir, images, todo, total, processed, errors, faces_detected,  *)
(*    no_faces, known, counter, labels, writes, faces]                     *)
(* with images, labels, writes and faces kept for the record.  An entry of *)
(* errors is [what, image]: the text and the image name it carries.        *)
(***************************************************************************)
Name(p) == p.stem \o p.suffix

\* the start of organize_images, up to the loop
OrganizeBegin(proc, image_files, probeFails) ==
    [output_dir |-> proc.output_dir,
     images |-> image_files,
     todo |-> image_files,
     total |-> Len(image_files),
     processed |-> 0,
     errors |-> IF probeFails
                THEN <<[what |-> "face_recognition library error", image |-> ""]>>
                ELSE <<>>,
     faces_detected |-> 0,
     no_faces |-> 0,
     known |-> proc.known_faces,
     counter |-> proc.person_counter,
     labels |-> <<>>,
     writes |-> <<>>,
     faces |-> <<>>]

\* the statistics of one image and the state process_image left
Counted(run, r) ==
    [run EXCEPT
       !.todo = Tail(@),
       !.known = r.known,
       !.counter = r.counter,
       !.labels = Append(@, r.label),
       !.faces = Append(@, r.faces),
       !.faces_detected = IF r.label # NotDetected THEN @ + 1 ELSE @,
       !.no_faces = IF r.label # NotDetected THEN @ ELSE @ + 1,
       !.processed = @ + 1]

\* "Create folder and copy file" for an image that can be read
CopyInto(run, fsd, img_path, dest_path) ==
    [run |-> [run EXCEPT !.writes = Append(@, WriteRecord(fsd.fs, img_path, dest_path))],
     dirs |-> MkdirParents(fsd.dirs, dest_path.dir),
     fs |-> Write(fsd.fs, dest_path, ContentOf(fsd.fs, img_path))]

\* the same for one that has vanished: copy2 raises, the error is recorded
CopyFails(run, fsd, img_path, person_folder) ==
    [run |-> [run EXCEPT !.errors = Append(@, [what |-> "Error copying",
                                               image |-> Name(img_path)])],
     dirs |-> MkdirParents(fsd.dirs, person_folder),
     fs |-> fsd.fs]

NotRead(run) ==
    [label |-> NotDetected, known |-> run.known, counter |-> run.counter,
     faces |-> <<>>]

\* one pass of the loop over image_files, on the file system fsd = [dirs, fs];
\* a vanished file makes load_image_file raise inside detect_faces
OrganizeFile(run, fsd, img_path, r) ==
    IF Exists(fsd.fs, img_path)
    THEN CopyInto(Counted(run, r), fsd, img_path,
                  copy_dest(fsd.fs, Append(run.output_dir, r.label), img_path, 0))
    ELSE CopyFails(Counted(run, r), fsd, img_path, Append(run.output_dir, r.label))

OrganizeOne(run, fsd) ==
    OrganizeFile(run, fsd, Head(run.todo),
                 IF Exists(fsd.fs, Head(run.todo))
                 THEN process_image(run.known, run.counter,
                                    ContentOf(fsd.fs, Head(run.todo)))
                 ELSE NotRead(run))

\* a catch-all that counts the image as attempted only
UnexpectedUncounted(run, fsd, img_path) ==
    [run |-> [run EXCEPT
                !.todo = Tail(@),
                !.labels = Append(@, NoPerson),
                !.faces = Append(@, <<>>),
                !.errors = Append(@, [what |-> "Unexpected error processing",
                                      image |-> Name(img_path)]),
                !.processed = @ + 1],
     dirs |-> fsd.dirs,
     fs |-> fsd.fs]

\* the catch-all of the loop: progress_callback raised before process_image
\* ran, the image gets no folder name
Unexpected(run, fsd, img_path) ==
    [run |-> [run EXCEPT
                !.todo = Tail(@),
                !.labels = Append(@, NoPerson),
                !.faces = Append(@, <<>>),
                !.errors = Append(@, [what |-> "Unexpected error processing",
                                      image |-> Name(img_path)]),
                !.processed = @ + 1,
                !.no_faces = @ + 1],
     dirs |-> fsd.dirs,
     fs |-> fsd.fs]

\* person_folder.mkdir raises: nothing is created, the error is recorded
MkdirFails(run, fsd, img_path) ==
    [run |-> [run EXCEPT !.errors = Append(@, [what |-> "Error copying",
                                               image |-> Name(img_path)])],
     dirs |-> fsd.dirs,
     fs |-> fsd.fs]

\* one pass of the loop in which the named operation raises
OrganizeOneFailing(run, fsd, fail) ==
    IF fail = "progress_callback" THEN Unexpected(run, fsd, Head(run.todo))
    ELSE IF fail = "mkdir"
    THEN MkdirFails(Counted(run, process_image(run.known, run.counter,
                                    ContentOf(fsd.fs, Head(run.todo)))),
                    fsd, Head(run.todo))
    ELSE IF fail = "copy2"
    THEN CopyFails(Counted(run, process_image(run.known, run.counter,
                                    ContentOf(fsd.fs, Head(run.todo)))),
                   fsd, Head(run.todo),
                   Append(run.output_dir,
                          process_image(run.known, run.counter,
                                        ContentOf(fsd.fs, Head(run.todo))).label))
    ELSE OrganizeOne(run, fsd)

RECURSIVE OrganizeLoop(_, _)
OrganizeLoop(run, fsd) ==
    IF run.todo = <<>> THEN [run |-> run, dirs |-> fsd.dirs, fs |-> fsd.fs]
    ELSE OrganizeLoop(OrganizeOne(run, fsd).run,
                      [dirs |-> OrganizeOne(run, fsd).dirs,
                       fs |-> OrganizeOne(run, fsd).fs])

\* the dict organize_images returns
OrganizeResult(run) ==
    [processed |-> run.processed,
     total |-> run.total,
     person_folders |-> Len(run.known),
     faces_detected |-> run.faces_detected,
     no_faces |-> run.no_faces,
     errors |-> run.errors]

organize_images(proc, ds, files, image_files, probeFails) ==
    OrganizeLoop(OrganizeBegin(proc, image_files, probeFails),
                 [dirs |-> MkdirParents(ds, proc.output_dir), fs |-> files])

(***************************************************************************)
(* The API server.                                                         *)
(***************************************************************************)
\* ImageProcessor.__init__
ImageProcessor(source_dirs, output_dir) ==
    [source_dirs |-> source_dirs, output_dir |-> output_dir,
     known_faces |-> <<>>, person_counter |-> 0]

NoResult ==
    [processed |-> 0, total |-> 0, person_folders |-> 0, faces_detected |-> 0,
     no_faces |-> 0, errors |-> <<>>]

\* a response; request, failed, writes, labels and images are kept for the record
NoResponse ==
    [call |-> "none", status |-> 0, error |-> "",
     request |-> <<>>, move |-> FALSE, images |-> <<>>,
     duplicates |-> <<>>, space_saved |-> 0, deleted |-> <<>>,
     failed |-> 0, writes |-> <<>>, labels |-> <<>>, faces |-> <<>>,
     result |-> NoResult]

\* the ranking with the resolutions dropped: by bytes alone
ScanRankedBySize(files, group) ==
    SortDesc(files, [group EXCEPT !.resolutions = <<>>], group.files)

\* the ranking of the scan handler and the bytes of all but its first
ScanRanked(files, group) == SortDesc(files, group, group.files)

space_saved(files, duplicates) ==
    SumSeq(Flatten(Map(duplicates, LAMBDA g :
        LET files_with_res == ScanRanked(files, g)
        IN Map(SubSeq(files_with_res, 2, Len(files_with_res)),
               LAMBDA f : LiveSize(files, f)))))

\* the directories a request may name, and the lists of them
\* the source_dirs a request may carry: none, one directory, a directory
\* twice, a directory and one below it, a missing directory first
A == <<"A">>
Sub == <<"A", "s">>
Missing == <<"M">>
OutputDir == <<"out">>
SourceDirLists == {<<>>, <<A>>, <<Sub>>, <<A, A>>, <<A, Sub>>, <<Missing, A>>}

\* POST /api/find-duplicates
FindDuplicates(source_dirs) ==
    /\ calls < MaxCalls
    /\ job = <<>>
    /\ calls' = calls + 1
    /\ UNCHANGED <<caseFold, libFails, dirs, fs, job>>
    /\ IF source_dirs = <<>>
       THEN /\ response' = [NoResponse EXCEPT !.call = "scan", !.status = 400,
                               !.error = "No source directories provided"]
            /\ UNCHANGED <<processor, client, scanned, fresh>>
       ELSE LET proc == ImageProcessor(source_dirs, OutputDir)
                image_files == get_image_files(caseFold, dirs, fs, proc.source_dirs)
                duplicates == IF image_files = <<>> THEN <<>>
                              ELSE find_duplicates(fs, image_files)
            IN /\ processor' = <<proc>>
               /\ response' = [NoResponse EXCEPT
                                 !.call = "scan", !.status = 200,
                                 !.request = source_dirs,
                                 !.images = image_files,
                                 !.duplicates = duplicates,
                                 !.space_saved = space_saved(fs, duplicates)]
               /\ client' = duplicates
               /\ scanned' = TRUE
               /\ fresh' = TRUE

\* POST /api/delete-duplicates
DeleteDuplicates(duplicates_data, move_duplicates) ==
    /\ calls < MaxCalls
    /\ job = <<>>
    /\ calls' = calls + 1
    /\ UNCHANGED <<caseFold, libFails, processor, client, scanned, job>>
    /\ IF processor = <<>>
       THEN /\ response' = [NoResponse EXCEPT !.call = "resolve", !.status = 400,
                               !.error = "No scan performed yet",
                               !.request = duplicates_data,
                               !.move = move_duplicates]
            /\ UNCHANGED <<dirs, fs, fresh>>
       ELSE LET r == delete_duplicates(processor[1], dirs, fs, duplicates_data,
                                       move_duplicates)
            IN IF ~r.ok
               THEN /\ response' = [NoResponse EXCEPT
                                      !.call = "resolve", !.status = 500,
                                      !.error = "FileNotFoundError",
                                      !.request = duplicates_data,
                                      !.move = move_duplicates]
                    /\ UNCHANGED <<dirs, fs, fresh>>
               ELSE /\ dirs' = r.dirs
                    /\ fs' = r.fs
                    /\ fresh' = FALSE
                    /\ response' = [NoResponse EXCEPT
                                      !.call = "resolve", !.status = 200,
                                      !.request = duplicates_data,
                                      !.move = move_duplicates,
                                      !.deleted = r.deleted,
                                      !.failed = r.failed,
                                      !.writes = r.writes]

\* the end of the organize handler: end is what organize_images left
Organized(proc, source_dirs, image_files, end) ==
    /\ processor' = <<[proc EXCEPT !.known_faces = end.run.known,
                                   !.person_counter = end.run.counter]>>
    /\ dirs' = end.dirs
    /\ fs' = end.fs
    /\ response' = [NoResponse EXCEPT
                      !.call = "organize", !.status = 200,
                      !.request = source_dirs,
                      !.images = image_files,
                      !.writes = end.run.writes,
                      !.labels = end.run.labels,
                      !.faces = end.run.faces,
                      !.result = OrganizeResult(end.run)]

\* POST /api/organize-by-person
OrganizeByPerson(source_dirs) ==
    /\ calls < MaxCalls
    /\ job = <<>>
    /\ calls' = calls + 1
    /\ UNCHANGED <<caseFold, libFails, client, scanned, fresh, job>>
    /\ IF source_dirs = <<>>
       THEN /\ response' = [NoResponse EXCEPT !.call = "organize", !.status = 400,
                               !.error = "No source directories provided"]
            /\ UNCHANGED <<processor, dirs, fs>>
       ELSE LET proc == ImageProcessor(source_dirs, OutputDir)
                image_files == get_image_files(caseFold, dirs, fs, proc.source_dirs)
            IN IF image_files = <<>>
               THEN /\ processor' = <<proc>>
                    /\ response' = [NoResponse EXCEPT
                                      !.call = "organize", !.status = 200,
                                      !.request = source_dirs]
                    /\ UNCHANGED <<dirs, fs>>
               ELSE Organized(proc, source_dirs, image_files,
                              organize_images(proc, dirs, fs, image_files, libFails))

(***************************************************************************)
(* The files the server starts with: three files of one name in A, in A/s  *)
(* and in A/_duplicates (where an earlier move-mode resolve left it), each *)
(* with one of three contents, and one file with a mixed-case suffix.      *)
(* Plain; Sharp, more pixels in fewer bytes, perceptually close to Plain   *)
(* on two hashes of three; Broken, which cannot be decoded.                *)
(***************************************************************************)
Plain ==
    [md5 |-> 1, dec |-> TRUE, pix |-> 4, size |-> 100,
     ph |-> {}, dh |-> {}, wh |-> {},
     det |-> [throws |-> FALSE, faces |-> <<0>>]]
Sharp ==
    [md5 |-> 2, dec |-> TRUE, pix |-> 9, size |-> 50,
     ph |-> {1, 2, 3}, dh |-> {1, 2, 3}, wh |-> {1, 2, 3, 4, 5, 6},
     det |-> [throws |-> FALSE, faces |-> <<51, 50>>]]
Broken ==
    [md5 |-> 3, dec |-> FALSE, pix |-> 0, size |-> 300,
     ph |-> {}, dh |-> {}, wh |-> {},
     det |-> [throws |-> TRUE, faces |-> <<>>]]
ApiContents == {Plain, Sharp, Broken}

ApiPaths ==
    <<Path(A, "a", ".jpg"), Path(Sub, "a", ".jpg"),
      Path(<<"A", "_duplicates">>, "a", ".jpg")>>
MixedCase == [path |-> Path(Sub, "b", ".Jpg"), c |-> Plain]

Init ==
    /\ caseFold \in BOOLEAN
    /\ libFails = FALSE
    /\ dirs = <<A, Sub, <<"A", "_duplicates">>>>
    /\ \E cs \in [1..Len(ApiPaths) -> ApiContents] :
           fs = Append([i \in 1..Len(ApiPaths) |->
                           [path |-> ApiPaths[i], c |-> cs[i]]], MixedCase)
    /\ processor = <<>>
    /\ response = NoResponse
    /\ client = <<>>
    /\ calls = 0
    /\ scanned = FALSE
    /\ fresh = FALSE
    /\ job = <<>>

Next ==
    \/ \E source_dirs \in SourceDirLists : FindDuplicates(source_dirs)
    \/ \E duplicates_data \in {client, <<>>}, move_duplicates \in BOOLEAN :
           DeleteDuplicates(duplicates_data, move_duplicates)
    \/ \E source_dirs \in SourceDirLists : OrganizeByPerson(source_dirs)

Spec == Init /\ [][Next]_vars

(***************************************************************************)
(* The server on a case-sensitive file system right after a scan of A, the *)
(* client holding the groups it returned: the calls that follow are        *)
(* organize and resolve calls, counted from here.                          *)
(***************************************************************************)
ScanOrigin == <<A>>

InitStale ==
    /\ caseFold = FALSE
    /\ libFails = FALSE
    /\ dirs = <<A, Sub, <<"A", "_duplicates">>>>
    /\ \E cs \in [1..Len(ApiPaths) -> ApiContents] :
           fs = Append([i \in 1..Len(ApiPaths) |->
                           [path |-> ApiPaths[i], c |-> cs[i]]], MixedCase)
    /\ processor = <<ImageProcessor(ScanOrigin, OutputDir)>>
    /\ client = find_duplicates(fs, get_image_files(caseFold, dirs, fs, ScanOrigin))
    /\ response = [NoResponse EXCEPT
                      !.call = "scan", !.status = 200,
                      !.request = ScanOrigin,
                      !.images = get_image_files(caseFold, dirs, fs, ScanOrigin),
                      !.duplicates = client,
                      !.space_saved = space_saved(fs, client)]
    /\ calls = 0
    /\ scanned = TRUE
    /\ fresh = TRUE
    /\ job = <<>>

NextStale ==
    \/ \E duplicates_data \in {client, <<>>}, move_duplicates \in BOOLEAN :
           DeleteDuplicates(duplicates_data, move_duplicates)
    \/ \E source_dirs \in SourceDirLists : OrganizeByPerson(source_dirs)

SpecStale == InitStale /\ [][NextStale]_vars

(***************************************************************************)
(* organize_images run image by image on one ImageProcessor, as a caller   *)
(* of the class runs it: the source directory holds up to MaxImages images *)
(* and face detection on each raises, or finds up to two faces whose       *)
(* encodings fail or lie at 0, 50 or 51 hundredths along the line.         *)
(***************************************************************************)
Encodings == {NoEncoding, 0, 50, 51}
FaceLists == {<<>>} \cup [1..1 -> Encodings] \cup [1..2 -> Encodings]
Detections ==
    {[throws |-> TRUE, faces |-> <<>>]}
    \cup {[throws |-> FALSE, faces |-> f] : f \in FaceLists}

Image(i, d) ==
    [path |-> Path(A, "img" \o ToString(i), ".jpg"),
     c |-> [md5 |-> i, dec |-> TRUE, pix |-> 1, size |-> 1,
            ph |-> {}, dh |-> {}, wh |-> {}, det |-> d]]

InitOrg ==
    /\ caseFold = FALSE
    /\ libFails \in BOOLEAN
    /\ dirs = <<A>>
    /\ \E n \in 1..MaxImages : \E ds \in [1..n -> Detections] :
           fs = [i \in 1..n |-> Image(i, ds[i])]
    /\ processor = <<ImageProcessor(<<A>>, OutputDir)>>
    /\ response = NoResponse
    /\ client = <<>>
    /\ calls = 0
    /\ scanned = FALSE
    /\ fresh = FALSE
    /\ job = <<>>

\* organize_images is called: everything before its loop
OrganizeCall ==
    /\ job = <<>>
    /\ calls < MaxCalls
    /\ calls' = calls + 1
    /\ job' = <<OrganizeBegin(processor[1],
                              get_image_files(caseFold, dirs, fs,
                                              processor[1].source_dirs),
                              libFails)>>
    /\ dirs' = MkdirParents(dirs, processor[1].output_dir)
    /\ UNCHANGED <<caseFold, libFails, fs, processor, response, client, scanned,
                   fresh>>

\* what one pass of the loop, whose result is n, leaves
Stepped(n) ==
    /\ job' = <<n.run>>
    /\ dirs' = n.dirs
    /\ fs' = n.fs
    /\ processor' = <<[processor[1] EXCEPT !.known_faces = n.run.known,
                                           !.person_counter = n.run.counter]>>

\* one pass of its loop
OrganizeStep ==
    /\ job # <<>>
    /\ job[1].todo # <<>>
    /\ Stepped(OrganizeOne(job[1], [dirs |-> dirs, fs |-> fs]))
    /\ UNCHANGED <<caseFold, libFails, response, client, calls, scanned, fresh>>

\* its return
OrganizeReturn ==
    /\ job # <<>>
    /\ job[1].todo = <<>>
    /\ response' = [NoResponse EXCEPT
                      !.call = "organize_images", !.status = 200,
                      !.images = job[1].images,
                      !.writes = job[1].writes,
                      !.labels = job[1].labels,
                      !.faces = job[1].faces,
                      !.result = OrganizeResult(job[1])]
    /\ job' = <<>>
    /\ UNCHANGED <<caseFold, libFails, dirs, fs, processor, client, calls, scanned,
                   fresh>>

NextOrg == OrganizeCall \/ OrganizeStep \/ OrganizeReturn

SpecOrg == InitOrg /\ [][NextOrg]_vars

(***************************************************************************)
(* One organize_images run in which, image by image, the progress callback *)
(* the caller gave, the creation of the person folder or the copy may      *)
(* raise.  Face detection raises, finds no face, or finds one or two.      *)
(***************************************************************************)
Failures == {"none", "progress_callback", "mkdir", "copy2"}

FailDetections ==
    {[throws |-> TRUE, faces |-> <<>>], [throws |-> FALSE, faces |-> <<>>],
     [throws |-> FALSE, faces |-> <<0>>], [throws |-> FALSE, faces |-> <<0, 51>>]}

InitFail ==
    /\ caseFold = FALSE
    /\ libFails \in BOOLEAN
    /\ dirs = <<A>>
    /\ \E n \in 1..MaxImages : \E ds \in [1..n -> FailDetections] :
           fs = [i \in 1..n |-> Image(i, ds[i])]
    /\ processor = <<ImageProcessor(<<A>>, OutputDir)>>
    /\ response = NoResponse
    /\ client = <<>>
    /\ calls = 0
    /\ scanned = FALSE
    /\ fresh = FALSE
    /\ job = <<>>

OrganizeOnce == calls = 0 /\ OrganizeCall

OrganizeStepFailing ==
    /\ job # <<>>
    /\ job[1].todo # <<>>
    /\ \E fail \in Failures :
          Stepped(OrganizeOneFailing(job[1], [dirs |-> dirs, fs |-> fs], fail))
    /\ UNCHANGED <<caseFold, libFails, response, client, calls, scanned, fresh>>

NextFail == OrganizeOnce \/ OrganizeStepFailing \/ OrganizeReturn

SpecFail == InitFail /\ [][NextFail]_vars

(***************************************************************************)
(* The scan handler on a directory of up to MaxFiles images that look      *)
(* alike (equal perceptual hashes), each of 100, 200 or 300 bytes and of 4 *)
(* or 9 pixels or undecodable; equal bytes and pixels mean the same file   *)
(* content, hence the same digest.  The filesystem is case-sensitive.      *)
(***************************************************************************)
Sizes == {100, 200, 300}
Resolutions == {0, 4, 9}

Lookalike(size, pix) ==
    [md5 |-> size + pix, dec |-> pix # 0, pix |-> pix, size |-> size,
     ph |-> {}, dh |-> {}, wh |-> {},
     det |-> [throws |-> FALSE, faces |-> <<>>]]

InitScan ==
    /\ caseFold = FALSE
    /\ libFails = FALSE
    /\ dirs = <<A>>
    /\ \E n \in 1..MaxFiles : \E sz \in [1..n -> Sizes], px \in [1..n -> Resolutions] :
           fs = [i \in 1..n |-> [path |-> Path(A, "f" \o ToString(i), ".jpg"),
                                 c |-> Lookalike(sz[i], px[i])]]
    /\ processor = <<>>
    /\ response = NoResponse
    /\ client = <<>>
    /\ calls = 0
    /\ scanned = FALSE
    /\ fresh = FALSE
    /\ job = <<>>

\* no directory, the directory, the directory named twice
ScanDirLists == {<<>>, <<A>>, <<A, A>>}

NextScan == \E source_dirs \in ScanDirLists : FindDuplicates(source_dirs)

SpecScan == InitScan /\ [][NextScan]_vars

(***************************************************************************)
(* The scan handler on a directory of up to MaxGroupFiles images of four   *)
(* kinds: Flat and Flat2 have the same perceptual hashes and different     *)
(* bytes, Edge is within the threshold of them on two hashes of three, Far *)
(* is beyond it on all three.                                              *)
(***************************************************************************)
MaxGroupFiles == 4

Kind(md5, ph, wh) ==
    [md5 |-> md5, dec |-> TRUE, pix |-> 4, size |-> 100 * md5,
     ph |-> ph, dh |-> ph, wh |-> wh,
     det |-> [throws |-> FALSE, faces |-> <<>>]]

Flat == Kind(1, {}, {})
Flat2 == Kind(2, {}, {})
Edge == Kind(3, {1, 2, 3}, {1, 2, 3, 4, 5, 6})
Far == Kind(4, 1..12, 1..12)
Kinds == {Flat, Flat2, Edge, Far}

InitGroup ==
    /\ caseFold = FALSE
    /\ libFails = FALSE
    /\ dirs = <<A>>
    /\ \E n \in 1..MaxGroupFiles : \E ks \in [1..n -> Kinds] :
           fs = [i \in 1..n |-> [path |-> Path(A, "g" \o ToString(i), ".jpg"),
                                 c |-> ks[i]]]
    /\ processor = <<>>
    /\ response = NoResponse
    /\ client = <<>>
    /\ calls = 0
    /\ scanned = FALSE
    /\ fresh = FALSE
    /\ job = <<>>

SpecGroup == InitGroup /\ [][NextScan]_vars


(***************************************************************************)
(* Properties.                                                             *)
(***************************************************************************)
NoRepeat(s) == \A i, j \in 1..Len(s) : s[i] = s[j] => i = j

Paths(files) == {e.path : e \in Range(files)}

\* p ranks highest in group g on the files as they are: no member has a
\* greater (pixels, size)
TopRanked(files, g, p) ==
    /\ p \in Range(g.files)
    /\ \A q \in Range(g.files) : ~KeyLess(RankKey(files, g, p), RankKey(files, g, q))

\* this step is a resolve call that the server accepted
Resolved == calls' = calls + 1 /\ response'.call = "resolve"

\* C1: after a resolve of the groups a scan returned, with no file operation
\* failing, each group has a top-ranked file that was neither moved nor deleted
\* and is still in place, and every other member of the group is gone from its
\* path and reported moved or deleted
C1_TopRankedKept ==
    [][(Resolved /\ fresh /\ response'.status = 200 /\ response'.request = client
        /\ response'.failed = 0)
       => \A k \in 1..Len(client) :
            \E top \in Range(client[k].files) :
              /\ TopRanked(fs, client[k], top)
              /\ top \notin Range(response'.deleted)
              /\ Exists(fs', top)
              /\ ContentOf(fs', top) = ContentOf(fs, top)
              /\ \A p \in Range(client[k].files) \ {top} :
                    ~Exists(fs', p) /\ p \in Range(response'.deleted)]_vars

\* the groups of a scan response
Scanned == response.call = "scan" /\ response.status = 200

\* C2: in the result of find_duplicates no file is a member of two groups and
\* no file occurs twice inside one group (so each enumerated file is in one
\* exact group, one similar group or none)
C2_GroupsDisjoint ==
    Scanned =>
      /\ \A k \in 1..Len(response.duplicates) : NoRepeat(response.duplicates[k].files)
      /\ \A k, m \in 1..Len(response.duplicates) :
            k # m => Range(response.duplicates[k].files)
                     \cap Range(response.duplicates[m].files) = {}
      /\ \A k \in 1..Len(response.duplicates) :
            Range(response.duplicates[k].files) \subseteq Range(response.images)

\* the files a request for source_dirs is to enumerate: those under an existing
\* source directory whose suffix is a supported one in any letter case
Wanted(source_dirs) ==
    {p \in Paths(fs) :
        /\ \E i \in 1..Len(source_dirs) :
              source_dirs[i] \in Range(dirs) /\ IsPrefix(source_dirs[i], p.dir)
        /\ \E j \in 1..Len(supported_formats) :
              Upper(supported_formats[j]) = Upper(p.suffix)}

\* C3: get_image_files returns exactly the supported files under the source
\* directories, mixed-case suffixes included, each path once
C3_EnumeratesEachOnce ==
    Scanned =>
      /\ Range(response.images) = Wanted(response.request)
      /\ NoRepeat(response.images)

\* C5: a resolve of an empty duplicate set, in either mode, reports no deleted
\* file and creates, moves and deletes nothing
C5_EmptyResolveTouchesNothing ==
    [][(Resolved /\ response'.request = <<>>)
       => response'.deleted = <<>> /\ fs' = fs /\ dirs' = dirs]_vars

\* C6: a resolve call that no scan call preceded is answered with an error and
\* changes no file and no directory
C6_ResolveNeedsScan ==
    [][(Resolved /\ ~scanned)
       => /\ response'.status \in {400, 500}
          /\ response'.error # ""
          /\ fs' = fs /\ dirs' = dirs]_vars

\* the bytes of all entries of group g, and of one that ranks highest
TotalBytes(g) == SumSeq(Map(g.files, LAMBDA p : LiveSize(fs, p)))
KeptBytes(g) == LiveSize(fs, CHOOSE p \in Range(g.files) : TopRanked(fs, g, p))

\* C7: space_saved is the sum over the groups of the bytes of every entry but
\* the kept one, the kept one ranking highest by (pixels, bytes) with a missing
\* resolution counting as 0 pixels
C7_SpaceSaved ==
    Scanned =>
      response.space_saved
        = SumSeq(Map(response.duplicates, LAMBDA g : TotalBytes(g) - KeptBytes(g)))

\* three files of equal resolution and of 100, 200 and 300 bytes in one group:
\* 300 bytes are reported
C7_Witness ==
    /\ Scanned
    /\ Len(response.duplicates) = 1
    /\ NoRepeat(response.duplicates[1].files)
    /\ {LiveSize(fs, p) : p \in Range(response.duplicates[1].files)} = {100, 200, 300}
    /\ \A p, q \in Range(response.duplicates[1].files) :
          Pixels(response.duplicates[1], p) = Pixels(response.duplicates[1], q)
    /\ response.space_saved = 300

\* the run under way or, after its return, nothing
Running == job # <<>>

\* the faces of the k-th image of the run whose encoding succeeded
Encoded(k) ==
    LET c == ContentOf(fs, job[1].images[k])
    IN IF c.det.throws THEN <<>>
       ELSE SelectSeq(c.det.faces, LAMBDA f : f # NoEncoding)

\* C4: organize on N files on each of which face detection raises returns
\* processed = N, no_faces = N and faces_detected = 0, and its errors list is
\* not empty: it has an entry naming each image
C4_RaisingDetectionReported ==
    (/\ response.call = "organize_images"
     /\ \A p \in Range(response.images) : ContentOf(fs, p).det.throws)
    => /\ response.result.processed = Len(response.images)
       /\ response.result.no_faces = Len(response.images)
       /\ response.result.faces_detected = 0
       /\ response.result.errors # <<>>
       /\ \A p \in Range(response.images) :
             \E i \in 1..Len(response.result.errors) :
                response.result.errors[i].image = Name(p)

Near(e) ==
    {i \in 1..Len(e.known) :
        (IF e.known[i].enc >= e.enc THEN e.known[i].enc - e.enc
         ELSE e.enc - e.known[i].enc) <= 50}

\* C8: with tolerance 0.5 each encoded face gets the earliest-created cluster
\* at distance <= 0.5 (0.5 itself matches), closer later clusters or not, and
\* only when every cluster is farther a new cluster, with this encoding
C8_FirstClusterWithinTolerance ==
    Running =>
      \A k \in 1..Len(job[1].faces) : \A j \in 1..Len(job[1].faces[k]) :
        LET e == job[1].faces[k][j]
        IN IF Near(e) # {}
           THEN /\ ~e.created
                /\ e.name = e.known[CHOOSE i \in Near(e) : \A m \in Near(e) : i <= m].name
           ELSE /\ e.created
                /\ \A i \in 1..Len(e.known) : e.known[i].name # e.name
                /\ \E i \in 1..Len(job[1].known) :
                      job[1].known[i] = [name |-> e.name, enc |-> e.enc]

\* a face at exactly 0.5 from the first cluster and nearer to the second got
\* the first, and a face at 0.51 from the only cluster made Person_2
C8_Witness ==
    /\ Running
    /\ \E k \in 1..Len(job[1].faces) : \E j \in 1..Len(job[1].faces[k]) :
         LET e == job[1].faces[k][j]
         IN /\ Len(e.known) = 2
            /\ e.known[1].enc = 0 /\ e.enc = 50 /\ e.known[2].enc = 51
            /\ e.name = "Person_1"
    /\ \E k \in 1..Len(job[1].faces) : \E j \in 1..Len(job[1].faces[k]) :
         LET e == job[1].faces[k][j]
         IN /\ Len(e.known) = 1
            /\ e.known[1].enc = 0 /\ e.enc = 51
            /\ e.name = "Person_2" /\ e.created

\* the distinct person identifiers the k-th image's faces got
Identified(k) == {job[1].faces[k][j].name : j \in 1..Len(job[1].faces[k])}

\* C9: the label of an image follows from the distinct identifiers its encoded
\* faces got: none gives "Not Detected Persons", one gives it, more give
\* "Multiple Persons"
C9_LabelFromDistinctPersons ==
    Running =>
      \A k \in {i \in 1..Len(job[1].labels) : job[1].labels[i] # NoPerson} :
        /\ Len(job[1].faces[k]) = Len(Encoded(k))
        /\ \A j \in 1..Len(Encoded(k)) : job[1].faces[k][j].enc = Encoded(k)[j]
        /\ job[1].labels[k] =
             IF Identified(k) = {} THEN "Not Detected Persons"
             ELSE IF \E x \in Identified(k) : Identified(k) = {x}
                  THEN CHOOSE x \in Identified(k) : TRUE
             ELSE "Multiple Persons"

\* two faces of one image matched one cluster and the image got its name; an
\* image whose only face failed encoding got "Not Detected Persons"
C9_Witness ==
    /\ Running
    /\ \E k \in 1..Len(job[1].labels) :
          /\ Len(job[1].faces[k]) = 2
          /\ job[1].faces[k][1].name = job[1].faces[k][2].name
          /\ job[1].labels[k] = job[1].faces[k][1].name
    /\ \E k \in 1..Len(job[1].labels) :
          /\ ~ContentOf(fs, job[1].images[k]).det.throws
          /\ ContentOf(fs, job[1].images[k]).det.faces = <<NoEncoding>>
          /\ job[1].labels[k] = "Not Detected Persons"

\* the files of folder d
Folder(d) == {x \in Range(fs) : x.path.dir = d}

\* the name a write into the folder of w should take: the plain name, or
\* stem_k.suffix for the least free k >= 1
FreeName(w) ==
    LET taken == {x.path : x \in w.before}
        plain == Path(w.dest.dir, w.src.stem, w.src.suffix)
    IN IF plain \notin taken THEN plain
       ELSE Suffixed(w.dest.dir, w.src,
              CHOOSE k \in 1..(Cardinality(taken) + 1) :
                 /\ Suffixed(w.dest.dir, w.src, k) \notin taken
                 /\ \A j \in 1..(k - 1) : Suffixed(w.dest.dir, w.src, j) \in taken)

\* the writes of the last call into folder d
WritesInto(d) == SelectSeq(response.writes, LAMBDA w : w.dest.dir = d)

\* C10: a copy of organize or a move of resolve never writes to a path that
\* exists; the name is the plain one or stem_k.suffix for the least free k >= 1;
\* after the call every file the folder held before a write is still there with
\* its content, and the folder has one more file for each write
C10_CollisionSafeNaming ==
    /\ \A i \in 1..Len(response.writes) :
         LET w == response.writes[i]
         IN /\ w.dest \notin {x.path : x \in w.before}
            /\ w.dest = FreeName(w)
            /\ \A x \in w.before : x \in Folder(w.dest.dir)
            /\ [path |-> w.dest, c |-> w.c] \in Folder(w.dest.dir)
    /\ \A d \in {response.writes[i].dest.dir : i \in 1..Len(response.writes)} :
         Cardinality(Folder(d))
           = Cardinality(WritesInto(d)[1].before) + Len(WritesInto(d))

\* the part of C10 on names alone: no write lands on an existing path and each
\* takes the least free name
C10_NamesFree ==
    \A i \in 1..Len(response.writes) :
       LET w == response.writes[i]
       IN w.dest \notin {x.path : x \in w.before} /\ w.dest = FreeName(w)

\* the images of the returned run whose folder name is in S
Labelled_In(S) == {k \in 1..Len(response.labels) : response.labels[k] \in S}

\* C11: whatever raised on which image, organize_images on N files returns
\* total = N, processed = N and faces_detected + no_faces = N; no_faces counts
\* the images labelled "Not Detected Persons" (an image the catch-all took has
\* fallen back to it), faces_detected the others, and an image without a
\* detected face is never among these
C11_EachImageCountedOnce ==
    response.call = "organize_images" =>
      /\ response.result.total = Len(response.images)
      /\ response.result.processed = Len(response.images)
      /\ response.result.faces_detected + response.result.no_faces
           = Len(response.images)
      /\ response.result.no_faces
           = Cardinality(Labelled_In({NotDetected, NoPerson}))
      /\ response.result.faces_detected
           = Cardinality({k \in 1..Len(response.labels) :
                             response.labels[k] \notin {NotDetected, NoPerson}})
      /\ \A k \in 1..Len(response.labels) :
            detect_faces(ContentOf(fs, response.images[k])) = <<>>
            => response.labels[k] \in {NotDetected, NoPerson}

\* a run of two images returned: on one the callback raised, on the other,
\* which shows a face, the copy failed
C11_Witness ==
    /\ response.call = "organize_images"
    /\ Len(response.images) = 2
    /\ \E i, j \in 1..Len(response.result.errors) :
          /\ response.result.errors[i].what = "Unexpected error processing"
          /\ response.result.errors[j].what = "Error copying"
          /\ response.result.errors[i].image # response.result.errors[j].image
    /\ response.result.faces_detected = 1
    /\ response.result.no_faces = 1

\* the files of the scan's groups of one type, group by group
GroupsOf(type) ==
    LET gs == SelectSeq(response.duplicates, LAMBDA g : g.type = type)
    IN [i \in 1..Len(gs) |-> gs[i].files]

\* the enumerated files with perceptual hashes that are in no exact group
NonExact ==
    SelectSeq(response.images, LAMBDA p :
        /\ calculate_image_hashes(fs, p).ok
        /\ \A i \in 1..Len(GroupsOf("exact")) : p \notin Range(GroupsOf("exact")[i]))

\* C12: the similar groups of a scan are those of the greedy seed pass run
\* over the files that are in no exact group, in enumeration order: a seed
\* with every unassigned such file within the threshold of it on two hashes of
\* three, singletons dropped
C12_SimilarOverNonExact ==
    Scanned => GroupsOf("similar") = SimilarGroups(fs, Dedup(NonExact), 1, {}, <<>>)

\* C13: every organize invocation starts with an empty cluster map and the
\* counter at 0, on a new processor or on one that has organized before, so no
\* face meets a cluster an earlier invocation made
C13_ClustersPerInvocation ==
    [][(job = <<>> /\ job' # <<>>)
       => /\ job'[1].known = <<>>
          /\ job'[1].counter = 0]_vars

\* the cluster identifiers of a run are Person_1 .. Person_k, k its counter
Sequential(run) ==
    /\ Len(run.known) = run.counter
    /\ \A i \in 1..Len(run.known) : run.known[i].name = PersonName(i)

\* the faces of the image last processed that were farther than the tolerance
\* from every cluster they met
Unmatched(run) ==
    {j \in 1..Len(run.faces[Len(run.faces)]) :
        Near(run.faces[Len(run.faces)][j]) = {}}

\* C14: in an organize run the cluster identifiers are Person_1 .. Person_k
\* with k = person_counter; over each process_image call the counter grows by
\* one for each face that matched no cluster and never falls, and every
\* cluster stays, under its name and with its first embedding
C14_ClustersSequentialAndFixed ==
    [][(job # <<>> /\ job' # <<>>)
       => /\ Sequential(job'[1])
          /\ Len(job'[1].faces) > Len(job[1].faces)
             => /\ job'[1].counter = job[1].counter + Cardinality(Unmatched(job'[1]))
                /\ \A i \in 1..Len(job[1].known) : job'[1].known[i] = job[1].known[i]]_vars

\* a face matched Person_1 at another embedding than its representative, after
\* a second cluster was made
C14_Witness ==
    /\ Running
    /\ Len(job[1].known) = 2
    /\ \E k \in 1..Len(job[1].faces) : \E j \in 1..Len(job[1].faces[k]) :
          LET e == job[1].faces[k][j]
          IN /\ ~e.created
             /\ Len(e.known) = 2
             /\ e.name = "Person_1"
             /\ e.enc # job[1].known[1].enc

\* C15: whatever calls came between, a move-mode resolve of the groups a scan
\* returned puts every redundant file in the _duplicates folder of that scan's
\* first source directory
C15_MovedUnderScanOrigin ==
    (response.call = "resolve" /\ response.move)
    => \A i \in 1..Len(response.writes) :
          response.writes[i].dest.dir = DuplicatesFolder(ScanOrigin)

\* the Person_N folders that the labels of the returned run made
PersonFolders ==
    {l \in Range(response.labels) \ {NotDetected, Multiple, NoPerson} :
        \E i \in 1..Len(dirs) : dirs[i] = Append(OutputDir, l)}

\* C16: person_folders in the result of organize_images is the number of
\* Person_N folders its labels made in the output directory; a cluster seen
\* only in images labelled "Multiple Persons" counts for nothing
C16_PersonFoldersCounted ==
    response.call = "organize_images"
    => response.result.person_folders = Cardinality(PersonFolders)

====
